---- MODULE Spec2Model ----
(***************************************************************************)
(* Model of src/vortex_dwm_lpe.py: the SCTT_VisualResonance helper         *)
(* (per-pixel byte derivation, prime-window timing) and the                *)
(* SCTT_DWM_Vortex driver (window creation, the 33-layer loop, the         *)
(* per-layer statistics, the completion payload hook).                     *)
(*                                                                         *)
(* Reals are fixed-point integers: a value v is held as v * Scale.  The    *)
(* numpy functions exp, sin and cos are evaluated by their Taylor series   *)
(* in that fixed-point arithmetic.  Calls into user32/gdi32/dwmapi, and    *)
(* the attribute lookups on ctypes.wintypes and on the DLL objects that    *)
(* precede them, are the environment: each may return a handle, return     *)
(* NULL or raise, chosen nondeterministically by the action that makes the *)
(* call.  (With the stock ctypes.wintypes, which has no WNDCLASSW, the     *)
(* outcome of create_resonant_window is always "raise_register".)          *)
(***************************************************************************)
EXTENDS Integers, Sequences, FiniteSets, TLC

VARIABLES
    cfgAlpha,             \* module global SCTT_ALPHA, times 10^7
    cfgLayers,            \* module global SCTT_LAYERS
    prime_windows,        \* SCTT_VisualResonance.prime_windows
    pc,                   \* where the client / driver is
    hwnd, hdc, hbitmap,   \* SCTT_DWM_Vortex handles
    layer_energies,       \* SCTT_DWM_Vortex.layer_energies, indexed 0..L-1
    total_cascade_energy, \* SCTT_DWM_Vortex.total_cascade_energy (fixed-point)
    payload,              \* argument of the current (or last) execute_visual_singularity
    layer,                \* loop variable of execute_visual_singularity
    successful_layers,    \* local counter of execute_visual_singularity
    ret,                  \* return value of the last induce_frame_buffer_resonance
    exec_ret,             \* return value of the last execute_visual_singularity
    pump_threads,         \* message-pump threads started so far
    attempted,            \* history: layers handed to induce_... in the current run
    payload_calls,        \* history: _execute_singularity_payload calls in the current run
    payload_layer,        \* history: layer index of the last payload call (-1: none)
    cascade_complete,     \* history: the run printed VISUAL RESONANCE CASCADE COMPLETE
    window_ret,           \* history: what create_resonant_window returned in the current run
    final_ret,            \* history: what induce_... returned for layer 32 in the current run
    writes,               \* history: how often layer_energies[i] was assigned
    induce_calls,         \* history: number of induce_frame_buffer_resonance calls
    calls,                \* number of client calls made on the object
    faults,               \* number of environment faults injected so far
    t_layer, t_now, t_wait,        \* prime_resonance_timing: inputs and wait_us
    p_layer, p_x, p_y, p_idx, p_pixel \* create_resonant_pixel_buffer: loop state

vars == <<cfgAlpha, cfgLayers, prime_windows, pc, hwnd, hdc, hbitmap,
          layer_energies, total_cascade_energy, payload, layer,
          successful_layers, ret, exec_ret, pump_threads, attempted,
          payload_calls, payload_layer, cascade_complete, window_ret, final_ret,
          writes, induce_calls, calls, faults,
          t_layer, t_now, t_wait, p_layer, p_x, p_y, p_idx, p_pixel>>

driverVars == <<pc, hwnd, hdc, hbitmap, layer_energies, total_cascade_energy,
                payload, layer, successful_layers, ret, exec_ret, pump_threads,
                attempted, payload_calls, payload_layer, cascade_complete, window_ret,
                final_ret, writes, induce_calls, calls, faults>>
cfgVars    == <<cfgAlpha, cfgLayers, prime_windows>>
timingVars == <<t_layer, t_now, t_wait>>
pixelVars  == <<p_layer, p_x, p_y, p_idx, p_pixel>>

(***************************************************************************)
(* Program constants                                                       *)
(***************************************************************************)
SCTT_ALPHA_E7 == 302011          \* SCTT_ALPHA = 0.0302011
SCTT_LAYERS == 33
PrimeWindows == <<10007, 10009, 10037, 10039, 10061>>
SingularityLayer == 32           \* the literal in "if layer == 32"
PatternEven == 170               \* 0xAA
PatternOdd == 85                 \* 0x55
Opaque == 255                    \* a = 255

(***************************************************************************)
(* Bounds of the model                                                     *)
(***************************************************************************)
MaxCalls == 2        \* client calls on one object
MaxFaults == 2       \* environment faults during layer processing
PixWidth == 20       \* width of the rendered buffer (640 in the source)
PixHeight == 20      \* height of the rendered buffer (480 in the source)
NowSmall == 40       \* current_us values 0..NowSmall are sampled
NowDelta == 2        \* and k*prime - NowDelta .. k*prime + NowDelta
NowMult == 2         \* for k in 1..NowMult
TimingLayers == 6    \* layers 0..TimingLayers are sampled for the timing

(***************************************************************************)
(* Fixed-point arithmetic                                                  *)
(***************************************************************************)
Scale == 10 ^ 4              \* v is held as v * Scale
TurnScale == 10 ^ 6          \* an angle is held in millionths of a turn
TwoPiScaled == 60000 + 2832  \* 2*pi * Scale

RECURSIVE ExpSeries(_, _, _, _)
\* sum of the alternating series 1 - x + x^2/2! - ... from term k on
ExpSeries(x, term, k, sign) ==
    IF term = 0 \/ k > 14 THEN 0
    ELSE sign * term + ExpSeries(x, (term * x) \div (Scale * (k + 1)), k + 1, -sign)

\* np.exp(-x) for x >= 0 (x scaled)
np_exp_neg(x) == ExpSeries(x, Scale, 0, 1)

RECURSIVE SinSeries(_, _, _, _)
SinSeries(x, term, k, sign) ==
    IF term = 0 \/ k > 8 THEN 0
    ELSE sign * term
         + SinSeries(x, (((term * x) \div Scale) * x) \div (Scale * (2 * k + 2) * (2 * k + 3)),
                     k + 1, -sign)

\* sin of q millionths of a turn, 0 <= q <= TurnScale/4
SinQuarter(q) ==
    LET rad == ((q \div 10) * TwoPiScaled) \div (TurnScale \div 10)
    IN  SinSeries(rad, rad, 0, 1)

\* np.sin(2*pi*t / TurnScale)
np_sin_turns(t) ==
    LET u == t % TurnScale
        h == TurnScale \div 2
        q == TurnScale \div 4
    IN  IF u <= q THEN SinQuarter(u)
        ELSE IF u <= h THEN SinQuarter(h - u)
        ELSE IF u <= h + q THEN -SinQuarter(u - h)
        ELSE -SinQuarter(TurnScale - u)

\* np.cos(2*pi*t / TurnScale)
np_cos_turns(t) == np_sin_turns(t + TurnScale \div 4)

(***************************************************************************)
(* Python integer operators                                                *)
(***************************************************************************)
RECURSIVE BitAnd(_, _, _)
\* bitwise and of the low n bits of two non-negative integers
BitAnd(a, b, n) ==
    IF n = 0 THEN 0
    ELSE (IF a % 2 = 1 /\ b % 2 = 1 THEN 1 ELSE 0) + 2 * BitAnd(a \div 2, b \div 2, n - 1)

RECURSIVE BitXor(_, _, _)
BitXor(a, b, n) ==
    IF n = 0 THEN 0
    ELSE (IF a % 2 # b % 2 THEN 1 ELSE 0) + 2 * BitXor(a \div 2, b \div 2, n - 1)

\* the low 16 bits of a Python int in two's complement (|a| < 2^16)
TwosComplement(a) == IF a < 0 THEN a + 2 ^ 16 ELSE a

\* Python "a & 0xFF"
PyAndFF(a) == BitAnd(TwosComplement(a), 255, 16)

\* Python "a ^ pattern" for a byte a
PyXor(a, pattern) == BitXor(a, pattern, 8)

\* int(v) with floor in place of truncation toward zero
PyInt_floor(n) == n \div Scale

\* Python int(v) for the real v = n / Scale: truncation toward zero
PyInt(n) == IF n >= 0 THEN n \div Scale ELSE -((-n) \div Scale)

(***************************************************************************)
(* SCTT_VisualResonance                                                    *)
(***************************************************************************)
\* np.exp(-SCTT_ALPHA * layer)
LayerEnergy(l) == np_exp_neg((cfgAlpha * l) \div (10 ^ 7 \div Scale))

calculate_visual_resonance(l, x, y) ==
    LET base_energy    == np_exp_neg((cfgAlpha * l) \div (10 ^ 7 \div Scale))
        \* (x + y) / spatial_wavelength turns, spatial_wavelength = 1 / alpha
        spatial_factor == np_sin_turns((((x + y) * cfgAlpha) % 10 ^ 7) \div (10 ^ 7 \div TurnScale))
        temporal_phase == np_sin_turns((l * TurnScale) \div cfgLayers)
    IN  (((base_energy * (Scale + (3 * spatial_factor) \div 10)) \div Scale)
            * (Scale + (2 * temporal_phase) \div 10)) \div Scale

\* the three real-valued channel intermediates of a pixel, each times Scale
ChannelValues(l, x, y) ==
    LET resonance == calculate_visual_resonance(l, x, y)
        \* resonance * pi radians = resonance / 2 turns
        half      == resonance * ((TurnScale \div Scale) \div 2)
    IN  <<255 * resonance, 255 * np_sin_turns(half), 255 * np_cos_turns(half)>>

Pattern(l) == IF l % 2 = 0 THEN PatternEven ELSE PatternOdd

\* one pixel of create_resonant_pixel_buffer: <<r, g, b, a>>
ResonantPixel(l, x, y) ==
    LET v == ChannelValues(l, x, y)
    IN  <<PyXor(PyAndFF(PyInt(v[1])), Pattern(l)),
          PyXor(PyAndFF(PyInt(v[2])), Pattern(l)),
          PyXor(PyAndFF(PyInt(v[3])), Pattern(l)),
          Opaque>>

\* wait_us as the time since the last prime window, not until the next
prime_resonance_timing_since(l, current_us) ==
    LET prime == prime_windows[(l % Len(prime_windows)) + 1]
    IN  current_us % prime

\* wait_us without the final "% prime"
prime_resonance_timing_nomod(l, current_us) ==
    LET prime == prime_windows[(l % Len(prime_windows)) + 1]
    IN  prime - (current_us % prime)

\* wait_us of prime_resonance_timing; the function returns wait_us / 1e6
prime_resonance_timing(l, current_us) ==
    LET prime == prime_windows[(l % Len(prime_windows)) + 1]
    IN  (prime - (current_us % prime)) % prime

(***************************************************************************)
(* SCTT_DWM_Vortex                                                         *)
(***************************************************************************)
Falsy(h) == h \in {"None", "NULL"}
Truthy(p) == p = "bytes"         \* None and b"" are both false in "if payload"
Payloads == {"None", "empty", "bytes"}

\* what the Windows calls of create_resonant_window may do
WindowOutcomes == {"raise_register", "null_window", "raise_getdc", "null_dc", "ok"}

\* create_resonant_window: the handles it leaves and the value it returns
create_resonant_window(o) ==
    CASE o = "raise_register" -> [hwnd |-> hwnd, hdc |-> hdc, ret |-> FALSE]
      [] o = "null_window"    -> [hwnd |-> "NULL", hdc |-> hdc, ret |-> FALSE]
      [] o = "raise_getdc"    -> [hwnd |-> "HWND", hdc |-> hdc, ret |-> FALSE]
      [] o = "null_dc"        -> [hwnd |-> "HWND", hdc |-> "NULL", ret |-> TRUE]
      [] o = "ok"             -> [hwnd |-> "HWND", hdc |-> "HDC", ret |-> TRUE]

\* "if not self.hwnd or not self.hdc"
NoWindow == Falsy(hwnd) \/ Falsy(hdc)

\* what the calls inside the try block of induce_frame_buffer_resonance may do
InduceOutcomes == {"ok", "raise_before_bitmap", "null_bitmap", "raise_getobject",
                   "null_object", "raise_display", "raise_flush"}

\* induce_frame_buffer_resonance(layer) under outcome o
induce_frame_buffer_resonance(l, o) ==
    LET e == LayerEnergy(l)
        unchanged == [energies |-> layer_energies, total |-> total_cascade_energy,
                      hbitmap |-> hbitmap, wrote |-> FALSE, ret |-> FALSE]
        written == [energies |-> [layer_energies EXCEPT ![l] = e],
                    total |-> total_cascade_energy + e,
                    hbitmap |-> "None", wrote |-> TRUE, ret |-> TRUE]
    IN  IF NoWindow THEN unchanged
        \* inside the try block: "layer % len(prime_windows)" with an empty list and
        \* "1 / self.alpha" with alpha = 0 raise ZeroDivisionError, like any failing
        \* call before CreateDIBSection
        ELSE IF Len(prime_windows) = 0 \/ cfgAlpha = 0 \/ o = "raise_before_bitmap"
             THEN unchanged
        ELSE CASE o = "null_bitmap"     -> [unchanged EXCEPT !.hbitmap = "NULL", !.ret = TRUE]
               [] o = "raise_getobject" -> [unchanged EXCEPT !.hbitmap = "HBITMAP"]
               [] o = "null_object"     -> [unchanged EXCEPT !.hbitmap = "HBITMAP", !.ret = TRUE]
               [] o = "raise_display"   -> [written EXCEPT !.hbitmap = "HBITMAP", !.ret = FALSE]
               [] o = "raise_flush"     -> [written EXCEPT !.ret = FALSE]
               [] o = "ok"              -> written

\* the payload hook fires at every successful layer
PayloadInvoked_every(l, r, p) == r /\ Truthy(p)

\* "if self.induce_...(layer): ... if layer == 32: ... if payload:"
PayloadInvoked(l, r, p) == r /\ l = SingularityLayer /\ Truthy(p)

\* the loop breaks at the first failed layer
LoopNext_break(l, r) == IF r THEN l + 1 ELSE cfgLayers

\* "for layer in range(SCTT_LAYERS)": the next index, whatever the layer returned
LoopNext(l, r) == l + 1

\* the driver goes on although create_resonant_window returned False
WindowCreated_ignored(r) == TRUE

\* "if not self.create_resonant_window(): return False"
WindowCreated(r) == r

Bool(b) == IF b THEN "True" ELSE "False"

\* the state right after SCTT_DWM_Vortex() under the current module globals
Constructed ==
    /\ hwnd = "None" /\ hdc = "None" /\ hbitmap = "None"
    /\ layer_energies = [i \in 0 .. cfgLayers - 1 |-> 0]
    /\ total_cascade_energy = 0
    /\ writes = [i \in 0 .. cfgLayers - 1 |-> 0]
    /\ payload = "None" /\ layer = 0 /\ successful_layers = 0
    /\ ret = "none" /\ exec_ret = "none" /\ pump_threads = 0
    /\ attempted = <<>> /\ payload_calls = 0 /\ payload_layer = -1
    /\ cascade_complete = FALSE /\ window_ret = "none" /\ final_ret = "none"
    /\ induce_calls = 0 /\ calls = 0 /\ faults = 0

ShippedConfig ==
    /\ cfgAlpha = SCTT_ALPHA_E7
    /\ cfgLayers = SCTT_LAYERS
    /\ prime_windows = PrimeWindows

TimingIdle == t_layer = 0 /\ t_now = 0 /\ t_wait = -1
PixelIdle == p_layer = 0 /\ p_x = 0 /\ p_y = 0 /\ p_idx = -1 /\ p_pixel = <<>>

Init == ShippedConfig /\ Constructed /\ pc = "idle" /\ TimingIdle /\ PixelIdle

\* the layers at which the environment injects faults and which the client
\* passes to a direct induce_frame_buffer_resonance call: the first two, a
\* middle one, the last two
SampleLayers == {0, 1, SCTT_LAYERS \div 2, SCTT_LAYERS - 2, SCTT_LAYERS - 1}

\* the outcomes the environment may still choose at layer l
Allowed(l, o) == o = "ok" \/ (faults < MaxFaults /\ l \in SampleLayers)

\* client: vortex.execute_visual_singularity(p), up to the window creation
CallExecute ==
    /\ pc = "idle" /\ calls < MaxCalls
    /\ \E p \in Payloads : payload' = p
    /\ calls' = calls + 1
    /\ pc' = "exec_create"
    /\ attempted' = <<>> /\ payload_calls' = 0 /\ payload_layer' = -1
    /\ cascade_complete' = FALSE /\ exec_ret' = "none"
    /\ window_ret' = "none" /\ final_ret' = "none"
    /\ UNCHANGED <<hwnd, hdc, hbitmap, layer_energies, total_cascade_energy, layer,
                   successful_layers, ret, pump_threads, writes, induce_calls, faults>>
    /\ UNCHANGED <<cfgVars, timingVars, pixelVars>>

\* Phase 1: create_resonant_window and the early return
ExecCreateWindow ==
    /\ pc = "exec_create"
    /\ \E o \in WindowOutcomes :
         LET w == create_resonant_window(o)
         IN  /\ hwnd' = w.hwnd /\ hdc' = w.hdc
             /\ window_ret' = Bool(w.ret)
             /\ IF WindowCreated(w.ret)
                THEN pc' = "exec_pump" /\ UNCHANGED exec_ret
                ELSE pc' = "idle" /\ exec_ret' = "False"
    /\ UNCHANGED <<hbitmap, layer_energies, total_cascade_energy, payload, layer,
                   successful_layers, ret, pump_threads, attempted, payload_calls,
                   payload_layer, cascade_complete, final_ret, writes, induce_calls,
                   calls, faults>>
    /\ UNCHANGED <<cfgVars, timingVars, pixelVars>>

\* Phase 2: ShowWindow, UpdateWindow, pump_thread.start(); then successful_layers = 0
ExecStartPump ==
    /\ pc = "exec_pump"
    /\ pump_threads' = pump_threads + 1
    /\ successful_layers' = 0 /\ layer' = 0
    /\ pc' = "exec_loop"
    /\ UNCHANGED <<hwnd, hdc, hbitmap, layer_energies, total_cascade_energy, payload,
                   ret, exec_ret, attempted, payload_calls, payload_layer,
                   cascade_complete, window_ret, final_ret, writes, induce_calls,
                   calls, faults>>
    /\ UNCHANGED <<cfgVars, timingVars, pixelVars>>

\* the effect of one induce_frame_buffer_resonance(l) call on the object
InduceEffect(l, o) ==
    LET res == induce_frame_buffer_resonance(l, o)
    IN  /\ layer_energies' = res.energies
        /\ total_cascade_energy' = res.total
        /\ hbitmap' = res.hbitmap
        /\ writes' = IF res.wrote THEN [writes EXCEPT ![l] = @ + 1] ELSE writes
        /\ ret' = Bool(res.ret)
        /\ induce_calls' = induce_calls + 1
        /\ faults' = IF NoWindow \/ o = "ok" THEN faults ELSE faults + 1

\* Phase 3: one iteration of "for layer in range(SCTT_LAYERS)"
ExecLayer ==
    /\ pc = "exec_loop" /\ layer < cfgLayers /\ Len(prime_windows) > 0
    /\ \E o \in InduceOutcomes :
         /\ Allowed(layer, o) /\ (NoWindow => o = "ok")
         /\ InduceEffect(layer, o)
         /\ LET r == induce_frame_buffer_resonance(layer, o).ret
            IN  /\ successful_layers' = IF r THEN successful_layers + 1 ELSE successful_layers
                /\ payload_calls' = IF PayloadInvoked(layer, r, payload)
                                    THEN payload_calls + 1 ELSE payload_calls
                /\ payload_layer' = IF PayloadInvoked(layer, r, payload)
                                    THEN layer ELSE payload_layer
                /\ final_ret' = IF layer = SingularityLayer THEN Bool(r) ELSE final_ret
                /\ layer' = LoopNext(layer, r)
    /\ attempted' = Append(attempted, layer)
    /\ UNCHANGED <<pc, hwnd, hdc, payload, exec_ret, pump_threads, cascade_complete,
                   window_ret, calls>>
    /\ UNCHANGED <<cfgVars, timingVars, pixelVars>>

\* Phase 4: the summary, ReleaseDC / DestroyWindow, "return successful_layers > 0"
ExecComplete ==
    /\ pc = "exec_loop" /\ layer >= cfgLayers /\ cfgLayers # 0
    /\ cascade_complete' = TRUE
    /\ exec_ret' = Bool(successful_layers > 0)
    /\ pc' = "idle"
    /\ UNCHANGED <<hwnd, hdc, hbitmap, layer_energies, total_cascade_energy, payload,
                   layer, successful_layers, ret, pump_threads, attempted, payload_calls,
                   payload_layer, window_ret, final_ret, writes, induce_calls, calls,
                   faults>>
    /\ UNCHANGED <<cfgVars, timingVars, pixelVars>>

\* client: vortex.induce_frame_buffer_resonance(l) called directly
CallInduce ==
    /\ pc = "idle" /\ calls < MaxCalls
    /\ \E l \in SampleLayers \cap (0 .. cfgLayers - 1) : \E o \in InduceOutcomes :
         /\ Allowed(l, o) /\ (NoWindow => o = "ok")
         /\ InduceEffect(l, o)
    /\ calls' = calls + 1
    /\ UNCHANGED <<pc, hwnd, hdc, payload, layer, successful_layers, exec_ret,
                   pump_threads, attempted, payload_calls, payload_layer,
                   cascade_complete, window_ret, final_ret>>
    /\ UNCHANGED <<cfgVars, timingVars, pixelVars>>

\* the daemon thread's GetMessageW / DispatchMessageW loop and _window_proc:
\* they read and write no field of the object
message_pump ==
    /\ pump_threads > 0
    /\ UNCHANGED vars

Next ==
    \/ CallExecute
    \/ ExecCreateWindow
    \/ ExecStartPump
    \/ ExecLayer
    \/ ExecComplete
    \/ CallInduce
    \/ message_pump

Spec == Init /\ [][Next]_vars

(***************************************************************************)
(* prime_resonance_timing as a pure function of (layer, current time)      *)
(***************************************************************************)
\* the sampled values of int(time.time() * 1e6): small ones, and the
\* neighbourhood of the first multiples of every prime window
NowSamples ==
    (0 .. NowSmall) \cup
    {k * PrimeWindows[i] + d : k \in 1 .. NowMult, i \in 1 .. Len(PrimeWindows),
                               d \in -NowDelta .. NowDelta}

InitTiming ==
    /\ ShippedConfig /\ Constructed /\ pc = "idle" /\ PixelIdle
    /\ t_layer \in 0 .. TimingLayers
    /\ t_now \in NowSamples
    /\ t_wait = -1

\* resonance.prime_resonance_timing(t_layer) at current_us = t_now
CallTiming ==
    /\ t_wait = -1
    /\ t_wait' = prime_resonance_timing(t_layer, t_now)
    /\ UNCHANGED <<t_layer, t_now, cfgVars, driverVars, pixelVars>>

NextTiming == CallTiming

SpecTiming == InitTiming /\ [][NextTiming]_vars

(***************************************************************************)
(* create_resonant_pixel_buffer: the y / x loops, one pixel per step       *)
(***************************************************************************)
InitPixel ==
    /\ ShippedConfig /\ Constructed /\ pc = "idle" /\ TimingIdle
    /\ p_layer \in 0 .. SCTT_LAYERS - 1
    /\ p_x = 0 /\ p_y = 0 /\ p_idx = -1 /\ p_pixel = <<>>

\* the body of "for x in range(width)" for the pixel (p_x, p_y)
PixelStep ==
    /\ p_y < PixHeight
    /\ p_idx' = (p_y * PixWidth + p_x) * 4
    /\ p_pixel' = ResonantPixel(p_layer, p_x, p_y)
    /\ IF p_x + 1 < PixWidth
       THEN p_x' = p_x + 1 /\ p_y' = p_y
       ELSE p_x' = 0 /\ p_y' = p_y + 1
    /\ UNCHANGED <<p_layer, cfgVars, driverVars, timingVars>>

NextPixel == PixelStep

SpecPixel == InitPixel /\ [][NextPixel]_vars

\* coordinates of the pixel written last
LastX == (p_idx \div 4) % PixWidth
LastY == (p_idx \div 4) \div PixWidth

(***************************************************************************)
(* The module globals as a configuration: construction under other values  *)
(***************************************************************************)
Configs ==
    { [alpha |-> SCTT_ALPHA_E7, layers |-> SCTT_LAYERS, periods |-> PrimeWindows],
      [alpha |-> 0,             layers |-> SCTT_LAYERS, periods |-> PrimeWindows],
      [alpha |-> SCTT_ALPHA_E7, layers |-> 0,           periods |-> PrimeWindows],
      [alpha |-> SCTT_ALPHA_E7, layers |-> SCTT_LAYERS, periods |-> <<>>] }

InvalidConfig == cfgAlpha <= 0 \/ cfgLayers <= 0 \/ Len(prime_windows) = 0

InitCfg ==
    /\ \E c \in Configs :
         cfgAlpha = c.alpha /\ cfgLayers = c.layers /\ prime_windows = c.periods
    /\ pc = "new"
    /\ hwnd = "unset" /\ hdc = "unset" /\ hbitmap = "unset"
    /\ layer_energies = <<>> /\ total_cascade_energy = 0 /\ writes = <<>>
    /\ payload = "None" /\ layer = 0 /\ successful_layers = 0
    /\ ret = "none" /\ exec_ret = "none" /\ pump_threads = 0
    /\ attempted = <<>> /\ payload_calls = 0 /\ payload_layer = -1
    /\ cascade_complete = FALSE /\ window_ret = "none" /\ final_ret = "none"
    /\ induce_calls = 0 /\ calls = 0 /\ faults = 0
    /\ TimingIdle /\ PixelIdle

\* SCTT_DWM_Vortex.__init__ (and SCTT_VisualResonance.__init__): no check of
\* alpha, of the layer count or of prime_windows, no exception raised
Construct ==
    /\ pc = "new"
    /\ pc' = "idle"
    /\ hwnd' = "None" /\ hdc' = "None" /\ hbitmap' = "None"
    /\ layer_energies' = [i \in 0 .. cfgLayers - 1 |-> 0]
    /\ total_cascade_energy' = 0
    /\ writes' = [i \in 0 .. cfgLayers - 1 |-> 0]
    /\ UNCHANGED <<payload, layer, successful_layers, ret, exec_ret, pump_threads,
                   attempted, payload_calls, payload_layer, cascade_complete,
                   window_ret, final_ret, induce_calls, calls, faults>>
    /\ UNCHANGED <<cfgVars, timingVars, pixelVars>>

\* "prime_windows[layer % len(prime_windows)]" in the loop body, outside any
\* try block, with an empty list: ZeroDivisionError leaves execute_visual_singularity
ExecTimingRaises ==
    /\ pc = "exec_loop" /\ layer < cfgLayers /\ Len(prime_windows) = 0
    /\ pc' = "idle" /\ exec_ret' = "ZeroDivisionError"
    /\ UNCHANGED <<hwnd, hdc, hbitmap, layer_energies, total_cascade_energy, payload,
                   layer, successful_layers, ret, pump_threads, attempted, payload_calls,
                   payload_layer, cascade_complete, window_ret, final_ret, writes,
                   induce_calls, calls, faults>>
    /\ UNCHANGED <<cfgVars, timingVars, pixelVars>>

\* "success_rate = successful_layers / SCTT_LAYERS" with SCTT_LAYERS = 0
ExecSummaryRaises ==
    /\ pc = "exec_loop" /\ layer >= cfgLayers /\ cfgLayers = 0
    /\ cascade_complete' = TRUE
    /\ pc' = "idle" /\ exec_ret' = "ZeroDivisionError"
    /\ UNCHANGED <<hwnd, hdc, hbitmap, layer_energies, total_cascade_energy, payload,
                   layer, successful_layers, ret, pump_threads, attempted, payload_calls,
                   payload_layer, window_ret, final_ret, writes, induce_calls, calls,
                   faults>>
    /\ UNCHANGED <<cfgVars, timingVars, pixelVars>>

NextCfg ==
    \/ Construct
    \/ CallExecute
    \/ ExecCreateWindow
    \/ ExecStartPump
    \/ ExecLayer
    \/ ExecTimingRaises
    \/ ExecComplete
    \/ ExecSummaryRaises
    \/ CallInduce
    \/ message_pump

SpecCfg == InitCfg /\ [][NextCfg]_vars

(***************************************************************************)
(* Claims                                                                  *)
(***************************************************************************)
RECURSIVE SumWritten(_)
\* the sum of layer_energies[i] over the indices i < n that were ever written
SumWritten(n) ==
    IF n = 0 THEN 0
    ELSE (IF writes[n - 1] > 0 THEN layer_energies[n - 1] ELSE 0) + SumWritten(n - 1)

\* C1: in a run of execute_visual_singularity the layers handed to
\* induce_frame_buffer_resonance are 0, 1, 2, ... in this order, each once; a
\* layer that fails does not end the loop; the run completes only after all
\* SCTT_LAYERS layers were attempted.
C1_LayersInOrder ==
    /\ \A i \in 1 .. Len(attempted) : attempted[i] = i - 1
    /\ pc = "exec_loop" => (Len(attempted) = layer /\ layer <= cfgLayers)
    /\ (pc = "idle" /\ attempted # <<>>) => cascade_complete
    /\ cascade_complete => Len(attempted) = cfgLayers

\* a completed run in which some layers failed and some succeeded
C1_Witness ==
    /\ cascade_complete /\ Len(attempted) = SCTT_LAYERS
    /\ successful_layers > 0 /\ successful_layers < SCTT_LAYERS

\* C2 as stated: a completed run that was given a payload has called
\* _execute_singularity_payload exactly once, at layer L-1; a run without a
\* payload has never called it.
C2_ExactlyOnce ==
    /\ payload_calls > 0 => payload_layer = cfgLayers - 1
    /\ payload = "None" => payload_calls = 0
    /\ (cascade_complete /\ payload = "bytes") => payload_calls = 1

\* C2 amended: the payload hook is called at most once per run, only at layer
\* L-1, and exactly when induce_frame_buffer_resonance returned True for that
\* layer and the payload is a non-empty byte string; never at an earlier layer.
C2_AtMostOnce ==
    /\ payload_calls = (IF final_ret = "True" /\ payload = "bytes" THEN 1 ELSE 0)
    /\ payload_calls > 0 => (payload_layer = cfgLayers - 1 /\ Len(attempted) = cfgLayers)
    /\ payload_calls = 0 => payload_layer = -1

\* a completed run with a payload whose last layer succeeded after an earlier failure
C2_Witness ==
    /\ cascade_complete /\ payload = "bytes" /\ final_ret = "True"
    /\ payload_calls = 1 /\ successful_layers < SCTT_LAYERS

\* C3: every index of layer_energies was written at most once and
\* total_cascade_energy is the sum of the entries that were written.
C3_WrittenOnce ==
    pc # "new" =>
        /\ \A i \in DOMAIN writes : writes[i] <= 1
        /\ total_cascade_energy = SumWritten(cfgLayers)

\* C4: an induce_frame_buffer_resonance call that returns False leaves
\* layer_energies and total_cascade_energy as they were before the call.
C4_FailedLayerUnrecorded ==
    [][(induce_calls' = induce_calls + 1 /\ ret' = "False")
         => (layer_energies' = layer_energies
             /\ total_cascade_energy' = total_cascade_energy)]_vars

\* C5: an object constructed under alpha <= 0, L <= 0 or an empty
\* prime_windows list is in the rejected state (InvalidConfiguration raised by
\* the constructor) and has run no layer and written no statistics.
C5_InvalidRejected ==
    (pc # "new" /\ InvalidConfig) =>
        (pc = "rejected" /\ attempted = <<>> /\ induce_calls = 0)

\* C6: wait_us of prime_resonance_timing(layer) lies in [0, period) for
\* period = prime_windows[layer mod 5].
C6_DelayInRange ==
    t_wait # -1 =>
        LET period == PrimeWindows[(t_layer % 5) + 1]
        IN  0 <= t_wait /\ t_wait < period

\* the largest delay, at a layer index that wraps around the five windows
C6_Witness ==
    t_layer = 5 /\ t_now = PrimeWindows[1] + 1 /\ t_wait = PrimeWindows[1] - 1

\* C7: wait_us is the smallest w >= 0 with (now + w) mod period = 0; it is 0
\* when now is a multiple of the period.
C7_SmallestAligning ==
    t_wait # -1 =>
        LET period == PrimeWindows[(t_layer % 5) + 1]
        IN  /\ t_wait >= 0
            /\ (t_now + t_wait) % period = 0
            /\ \A w \in 0 .. t_wait - 1 : (t_now + w) % period # 0
            /\ (t_now % period = 0 => t_wait = 0)

\* layer 0 at now = 10007: already aligned, zero delay
C7_Witness == t_layer = 0 /\ t_now = 10007 /\ t_wait = 0

\* the integer part of n / Scale by floor, by truncation toward zero
Near(n) == (n \div Scale) - 2 .. (n \div Scale) + 2
FloorOf(n) == CHOOSE t \in Near(n) : t * Scale <= n /\ n < (t + 1) * Scale
TruncOf(n) ==
    CHOOSE t \in Near(n) :
        IF n >= 0 THEN t * Scale <= n /\ n < (t + 1) * Scale
        ELSE (t - 1) * Scale < n /\ n <= t * Scale

\* C8 as stated: each colour byte of the pixel written last is
\* (floor(v) mod 256) XOR mask, the alpha byte is 255, every byte is in 0..255.
C8_FloorBytes ==
    p_idx >= 0 =>
        LET v == ChannelValues(p_layer, LastX, LastY)
            mask == IF p_layer % 2 = 0 THEN 170 ELSE 85
        IN  /\ \A c \in 1 .. 3 : p_pixel[c] = BitXor(FloorOf(v[c]) % 256, mask, 8)
            /\ p_pixel[4] = 255
            /\ \A c \in 1 .. 4 : p_pixel[c] \in 0 .. 255

\* C8 amended: each colour byte is (trunc(v) mod 256) XOR mask, where trunc
\* rounds toward zero (Python int()) and mod is the true modulo; the alpha
\* byte is 255 and every byte is in 0..255.
C8_TruncBytes ==
    p_idx >= 0 =>
        LET v == ChannelValues(p_layer, LastX, LastY)
            mask == IF p_layer % 2 = 0 THEN 170 ELSE 85
        IN  /\ \A c \in 1 .. 3 : p_pixel[c] = BitXor(TruncOf(v[c]) % 256, mask, 8)
            /\ p_pixel[4] = 255
            /\ \A c \in 1 .. 4 : p_pixel[c] \in 0 .. 255

\* a pixel with a negative, non-integer channel intermediate
C8_Witness ==
    /\ p_idx >= 0
    /\ \E c \in 1 .. 3 :
         LET n == ChannelValues(p_layer, LastX, LastY)[c]
         IN  n < 0 /\ n % Scale # 0

\* the value the source documents for the cascade total, in hundredths
DocumentedCascade == 2058

\* C9: once every layer was recorded exactly once, total_cascade_energy is
\* within 0.5% of 20.58.
C9_TotalNearDocumented ==
    (pc # "new" /\ cfgLayers = SCTT_LAYERS /\ \A i \in DOMAIN writes : writes[i] = 1) =>
        LET want == DocumentedCascade * (Scale \div 100)
            diff == total_cascade_energy - want
        IN  200 * (IF diff < 0 THEN -diff ELSE diff) <= want

\* C10: when create_resonant_window returns False, execute_visual_singularity
\* returns False at once: no layer attempted, no pump thread started, the
\* statistics untouched, the payload hook not called; and an
\* induce_frame_buffer_resonance call without window handle or device context
\* returns False and leaves the statistics untouched.
C10_NoWindowNoEffect ==
    [][/\ (pc = "exec_create" /\ window_ret' = "False")
            => /\ pc' = "idle" /\ exec_ret' = "False"
               /\ attempted' = <<>> /\ payload_calls' = 0
               /\ UNCHANGED <<layer_energies, total_cascade_energy, pump_threads,
                              induce_calls>>
       /\ (induce_calls' = induce_calls + 1 /\ (Falsy(hwnd) \/ Falsy(hdc)))
            => /\ ret' = "False"
               /\ UNCHANGED <<layer_energies, total_cascade_energy>>]_vars

\* a run that ended because GetDC raised after the window was created, followed
\* by a direct induce_frame_buffer_resonance call that found no device context
C10_Witness ==
    /\ window_ret = "False" /\ exec_ret = "False" /\ pc = "idle"
    /\ hwnd = "HWND" /\ hdc = "None"
    /\ induce_calls = 1 /\ ret = "False" /\ pump_threads = 0
====
